---- MODULE Spec2Model ----
(***************************************************************************)
(* A model of akita's Store / EntityStore and of its transaction engine.   *)
(*                                                                         *)
(* The program is single threaded: every store operation runs to           *)
(* completion, so one action of the model is one whole call.  A running    *)
(* applyTransaction(action) is the exception: its action body is made of   *)
(* further calls, so it is modelled by a stack of open calls (txStack),    *)
(* an action that enters it (startBatch) and two that leave it (the body   *)
(* returns, the body throws; both run the finally block, endBatch).        *)
(*                                                                         *)
(* The operators below thread a "world" record through the code of one     *)
(* call; W(...) packs the variables into it and Commit(...) unpacks it.    *)
(***************************************************************************)
EXTENDS Integers, Sequences, FiniteSets, TLC

VARIABLES
    storeValue,          \* Store.storeValue, per store
    store,               \* Store.store: the BehaviorSubject's current value, per store
    inTransaction,       \* Store.inTransaction, per store
    cacheActive,         \* Store.cache.active.value, per store
    activeTransactions,  \* transactionManager.activeTransactions
    batchTransaction,    \* transactionManager.batchTransaction
    txStack,             \* the applyTransaction calls now executing, innermost last
    notified,            \* store.next(...) calls since the current outermost call began
    writeLog,            \* the stores written by _setState since the current outermost call began
    events,              \* updatedEntityIds / entityActions emissions since then, mixed with the state notifications
    plugin,              \* the EntityStateHistoryPlugin of store "s1", once constructed
    idsDirty,            \* per store: state.ids is not the array the store emitted last
    hooks,               \* the hooks the plugin ran since the current outermost call began
    last                 \* the call that was made or returned last

vars == <<storeValue, store, inTransaction, cacheActive, activeTransactions,
          batchTransaction, txStack, notified, writeLog, events, plugin,
          idsDirty, hooks, last>>

(***************************************************************************)
(* Bounds of the model.                                                    *)
(***************************************************************************)
MaxDepth == 2        \* nesting of applyTransaction calls
MaxWrites == 3       \* calls made inside one outermost transaction
MaxIdsLen == 3       \* length of state.ids (ids may repeat, see upsertMany)
MaxInput == 2        \* length of an id list or entity list given to a call
MaxHistory == 2      \* snapshots a satellite holds in past and future together

Stores == {"s1", "s2"}
ID == {1, 2}
Titles == {"a", "b"}
Errors == {"e1", "e2"}

\* Sequences over S of length at most n.
SeqUpTo(S, n) == UNION {[1..k -> S] : k \in 0..n}

Range(f) == {f[i] : i \in DOMAIN f}

(***************************************************************************)
(* Values.                                                                 *)
(*                                                                         *)
(* An entity is a JavaScript object: a function from some field names to   *)
(* values.  { ...a, ...b } is b @@ a.  A state is                          *)
(* [ids, entities, active, loading]; loading is "true", "false" or         *)
(* "undefined" because add() stores options.loading as it finds it.        *)
(***************************************************************************)
Spread(a, b) == b @@ a

NoEntities == [i \in {} |-> [id |-> i]]

InitialState == [ids |-> <<>>, entities |-> NoEntities, active |-> <<>>, loading |-> "true"]

\* The arguments the model gives to the calls.
\* A JavaScript argument: null/undefined, one value (an id or an entity), an
\* array of them, or a predicate over entities.
Nil == [tag |-> "nil"]
One(x) == [tag |-> "one", v |-> x]
Arr(q) == [tag |-> "array", v |-> q]
TitleIs(t) == [tag |-> "fn", title |-> t]      \* entity => entity.title === t

isNil(a) == a.tag = "nil"
isDefined(a) == ~isNil(a)
isFunction(a) == a.tag = "fn"

coerceArray(a) ==
    CASE isNil(a) -> <<>>
      [] a.tag = "array" -> a.v
      [] OTHER -> <<a.v>>

\* isEmpty is true of an empty array only: remove() goes on with ids === null.
isEmpty(a) == a.tag = "array" /\ Len(a.v) = 0

hasEntity(entities, id) == id \in DOMAIN entities

ApplyPredicate(fn, entity) == "title" \in DOMAIN entity /\ entity.title = fn.title

\* Array.prototype.indexOf(x) > -1
Includes(q, x) == \E i \in DOMAIN q : q[i] = x

RECURSIVE Reverse(_)
Reverse(q) == IF q = <<>> THEN <<>> ELSE Append(Reverse(Tail(q)), Head(q))

\* Array.from(new Set(q)): the first occurrence of each element, in order.
RECURSIVE Uniques(_)
Uniques(q) ==
    IF q = <<>> THEN <<>>
    ELSE LET front == Uniques(SubSeq(q, 1, Len(q) - 1))
             x == q[Len(q)]
         IN IF Includes(front, x) THEN front ELSE Append(front, x)

(***************************************************************************)
(* entityCollectionPlugin.ts (EntityCollectionPlugin) and                  *)
(* entityStateHistoryPlugin.ts (EntityStateHistoryPlugin).                 *)
(*                                                                         *)
(* w.plugin is the one plugin of the model: entityIds is Nil (undefined:   *)
(* every id is tracked) or the fixed subset; entities is the Map of the    *)
(* satellites in insertion order, a satellite being [id, destroyed].       *)
(* w.hooks logs what a reconciliation calls, in order.                     *)
(***************************************************************************)
\* toBoolean(value): value != null && `${value}` !== 'false'.  An array, empty
\* or not, is true.
toBoolean(a) == ~isNil(a)

isUndefined(a) == isNil(a)

\* destroyedAll records that destroy() was called for all satellites.
NoPlugin ==
    [constructed |-> FALSE, store |-> "s1", entityIds |-> Nil, entities |-> <<>>,
     destroyedAll |-> FALSE]

\* The history a satellite (StateHistoryPlugin) starts with.
NoSnapshot == [tag |-> "nil"]

NoHistory == [past |-> <<>>, present |-> NoSnapshot, future |-> <<>>]

NewSatellite(id) == [id |-> id, destroyed |-> FALSE, history |-> NoHistory]

hook(w, name, id) == [w EXCEPT !.hooks = Append(@, [hook |-> name, id |-> id])]

\* this.entities.has(id)
pluginHasEntity(w, id) == \E i \in DOMAIN w.plugin.entities : w.plugin.entities[i].id = id

\* The keys of this.entities, in the order Map.forEach visits them.
SatelliteIds(w) == [i \in DOMAIN w.plugin.entities |-> w.plugin.entities[i].id]

createEntity(w, id) == [w EXCEPT !.plugin.entities = Append(@, NewSatellite(id))]

getIds(w) ==
    IF isUndefined(w.plugin.entityIds)
    THEN w.storeValue[w.plugin.store].ids
    ELSE coerceArray(w.plugin.entityIds)

resolvedIds(w, ids) == IF isUndefined(ids) THEN getIds(w) ELSE coerceArray(ids)

\* forEachId(ids, e => e.destroy(clearHistory)), over the ids already resolved.
RECURSIVE forEachIdDestroy(_, _)
forEachIdDestroy(w, _ids) ==
    IF _ids = <<>> THEN w
    ELSE LET id == Head(_ids)
             Destroyed(e) == IF e.id = id THEN [e EXCEPT !.destroyed = TRUE] ELSE e
             w1 == IF pluginHasEntity(w, id)
                   THEN hook([w EXCEPT !.plugin.entities =
                                  [i \in DOMAIN @ |-> Destroyed(@[i])]], "destroy", id)
                   ELSE w
         IN forEachIdDestroy(w1, Tail(_ids))

\* EntityStateHistoryPlugin.destroy(ids)
destroy(w, ids) == forEachIdDestroy(w, resolvedIds(w, ids))

removeEntity(w, id) ==
    LET Others(e) == e.id # id
    IN [destroy(w, One(id)) EXCEPT !.plugin.entities = SelectSeq(@, Others)]

\* beforeAdd, instantiatePlugin, entities.set, afterAdd.
addSatellite(w, entityId, actions) ==
    LET w1 == IF actions THEN hook(w, "beforeAdd", entityId) ELSE w
        w2 == createEntity(hook(w1, "instantiatePlugin", entityId), entityId)
    IN IF actions THEN hook(w2, "afterAdd", entityId) ELSE w2

RECURSIVE addMissing(_, _, _)
addMissing(w, ids, actions) ==
    IF ids = <<>> THEN w
    ELSE addMissing(IF ~pluginHasEntity(w, Head(ids))
                    THEN addSatellite(w, Head(ids), actions) ELSE w,
                    Tail(ids), actions)

\* this.entities.forEach(...) of rebase: keys are the entries still to visit.
RECURSIVE removeMissing(_, _, _, _)
removeMissing(w, ids, actions, keys) ==
    IF keys = <<>> THEN w
    ELSE LET entityId == Head(keys)
             w1 == IF actions THEN hook(w, "beforeRemove", entityId) ELSE w
         IN removeMissing(IF ~Includes(ids, entityId) /\ pluginHasEntity(w, entityId)
                          THEN removeEntity(w1, entityId) ELSE w,
                          ids, actions, Tail(keys))

\* The loop of the fixed-subset branch over _ids = coerceArray(entityIds).
RECURSIVE rebaseSubset(_, _, _, _)
rebaseSubset(w, ids, actions, _ids) ==
    IF _ids = <<>> THEN w
    ELSE LET entityId == Head(_ids)
         IN rebaseSubset(IF Includes(ids, entityId) /\ ~pluginHasEntity(w, entityId)
                         THEN addSatellite(w, entityId, actions)
                         ELSE removeMissing(w, ids, actions, SatelliteIds(w)),
                         ids, actions, Tail(_ids))

\* The branch of rebase taken when ids is not given.
RECURSIVE seed(_, _)
seed(w, ids) ==
    IF ids = <<>> THEN w
    ELSE seed(IF ~pluginHasEntity(w, Head(ids))
              THEN createEntity(hook(w, "instantiatePlugin", Head(ids)), Head(ids))
              ELSE w,
              Tail(ids))

rebaseKeepingAll(w, ids, actions) ==
    IF toBoolean(ids) THEN addMissing(w, coerceArray(ids), actions) ELSE seed(w, getIds(w))

rebase(w, ids, actions) ==
    IF toBoolean(ids)
    THEN IF isUndefined(w.plugin.entityIds)
         THEN LET w1 == addMissing(w, coerceArray(ids), actions)
              IN removeMissing(w1, coerceArray(ids), actions, SatelliteIds(w1))
         ELSE rebaseSubset(w, coerceArray(ids), actions, coerceArray(w.plugin.entityIds))
    ELSE seed(w, getIds(w))

activateSeedOnly(w, ids) == rebase(w, Nil, FALSE)

activate(w, ids) == rebase(w, ids, FALSE)

\* query.select(state => state.ids) as the plugin's subscriber sees it: map,
\* distinctUntilChanged (w.idsDirty[s]: state.ids is not the array emitted
\* last), skip(1), activate(ids).
selectIdsNext(w, s) ==
    LET w1 == [w EXCEPT !.idsDirty[s] = FALSE]
    IN IF w.idsDirty[s] /\ w.plugin.constructed /\ w.plugin.store = s
       THEN activate(w1, Arr(w1.store[s].ids))
       ELSE w1

\* new EntityStateHistoryPlugin(query, { entityIds })
newPlugin(w, entityIds) ==
    activate([w EXCEPT !.plugin = [NoPlugin EXCEPT !.constructed = TRUE,
                                                   !.entityIds = entityIds]], Nil)

(***************************************************************************)
(* transaction.ts                                                          *)
(***************************************************************************)
NullSubject == [status |-> "null", observers |-> <<>>]
NewSubject == [status |-> "open", observers |-> <<>>]

isTransactionInProcess(w) == w.activeTransactions > 0

startBatchFlat(w) ==
    IF ~isTransactionInProcess(w)
    THEN [w EXCEPT !.batchTransaction = NewSubject, !.activeTransactions = @ + 1]
    ELSE w

startBatch(w) ==
    LET w1 == IF ~isTransactionInProcess(w) THEN [w EXCEPT !.batchTransaction = NewSubject] ELSE w
    IN [w1 EXCEPT !.activeTransactions = @ + 1]

\* Store.dispatch: store.next(state).
dispatch(w, s) ==
    selectIdsNext(
        [w EXCEPT !.store[s] = w.storeValue[s],
                  !.notified = Append(@, [store |-> s, state |-> w.storeValue[s]]),
                  !.events = Append(@, [store |-> s, type |-> "State", ids |-> <<>>, all |-> FALSE])],
        s)

\* The subscriber Store.watchTransaction registers.
onCommit(w, s) == dispatch([w EXCEPT !.inTransaction[s] = FALSE], s)

RECURSIVE nextAllReversed(_, _)
nextAllReversed(w, observers) ==
    IF observers = <<>> THEN w
    ELSE nextAllReversed(onCommit(w, observers[Len(observers)]),
                         SubSeq(observers, 1, Len(observers) - 1))

\* Subject.next: every observer, in the order of subscription.
RECURSIVE nextAll(_, _)
nextAll(w, observers) ==
    IF observers = <<>> THEN w ELSE nextAll(onCommit(w, Head(observers)), Tail(observers))

batchNext(w) ==
    IF w.batchTransaction.status = "open" THEN nextAll(w, w.batchTransaction.observers) ELSE w

batchComplete(w) == [w EXCEPT !.batchTransaction = [status |-> "stopped", observers |-> <<>>]]

endBatchAtEveryLevel(w) == batchComplete(batchNext([w EXCEPT !.activeTransactions = @ - 1]))

endBatch(w) ==
    LET w1 == [w EXCEPT !.activeTransactions = @ - 1]
    IN IF w1.activeTransactions = 0 THEN batchComplete(batchNext(w1)) ELSE w1

\* commit().subscribe(callback)
subscribeCommit(w, s) ==
    CASE w.batchTransaction.status = "open" ->
            [w EXCEPT !.batchTransaction.observers = Append(@, s)]
      [] w.batchTransaction.status = "null" -> onCommit(w, s)      \* of(true)
      [] OTHER -> w                                                \* a completed Subject

watchTransaction(w, s) == subscribeCommit(w, s)

watchAtEveryWrite(w, s) == [watchTransaction(w, s) EXCEPT !.inTransaction[s] = TRUE]

handleTransaction(w, s) ==
    IF ~w.inTransaction[s]
    THEN [watchTransaction(w, s) EXCEPT !.inTransaction[s] = TRUE]
    ELSE w

_setStateUnbatched(w, s, newState) ==
    dispatch([w EXCEPT !.storeValue[s] = newState, !.writeLog = Append(@, s)], s)

\* Store._setState, once the store's BehaviorSubject exists (it is created by
\* the first _setState, which the constructor makes).
_setState(w, s, newState) ==
    LET w1 == [w EXCEPT !.storeValue[s] = newState, !.writeLog = Append(@, s)]
    IN IF isTransactionInProcess(w1) THEN handleTransaction(w1, s) ELSE dispatch(w1, s)

setHasCache(w, s, hasCache) ==
    IF hasCache # w.cacheActive[s] THEN [w EXCEPT !.cacheActive[s] = hasCache] ELSE w

\* The way out of applyTransaction: the finally block, whether the action
\* returned or threw.
leaveWithoutFinally(w, threw) == IF threw THEN w ELSE endBatch(w)

leaveTransaction(w, threw) == endBatch(w)

\* The way into applyTransaction.
enterTransaction(w) == startBatch(w)

(***************************************************************************)
(* The reducers entityStore.ts imports (setEntities, addEntities,          *)
(* updateEntities, removeEntities).                                        *)
(***************************************************************************)
IdsOf(entities) == [i \in 1..Len(entities) |-> entities[i].id]

\* The reducer built a new ids array: state.ids is no longer the array the
\* store emitted last (update and the active setters keep the array).
replacedIds(w, s) == [w EXCEPT !.idsDirty[s] = TRUE]

\* The id -> entity object of a list of entities; a later entity replaces an
\* earlier one with the same id.
RECURSIVE toEntitiesObject(_)
toEntitiesObject(entities) ==
    IF entities = <<>> THEN NoEntities
    ELSE LET e == entities[Len(entities)]
         IN (e.id :> e) @@ toEntitiesObject(SubSeq(entities, 1, Len(entities) - 1))

setEntities(state, entities) ==
    [state EXCEPT !.ids = IdsOf(entities), !.entities = toEntitiesObject(entities)]

\* Every record is appended (or prepended, one after the other) and its id
\* inserted into ids; nothing is deduplicated.
addEntities(state, entities, options) ==
    LET newIds == IF options.prepend THEN Reverse(IdsOf(entities)) ELSE IdsOf(entities)
    IN [isNull |-> entities = <<>>,
        newIds |-> newIds,
        newState |-> [state EXCEPT
            !.entities = toEntitiesObject(entities) @@ state.entities,
            !.ids = IF options.prepend THEN newIds \o state.ids ELSE state.ids \o newIds]]

\* The patch is merged onto each selected entity.
updateEntities(state, ids, newState) ==
    [state EXCEPT !.entities =
        [k \in DOMAIN state.entities |->
            IF Includes(ids, k) THEN Spread(state.entities[k], newState) ELSE state.entities[k]]]

\* ids is Nil (remove all) or an array of ids; active is left as it is.
removeEntities(state, ids) ==
    IF isNil(ids)
    THEN [state EXCEPT !.ids = <<>>, !.entities = NoEntities]
    ELSE LET Kept(id) == ~Includes(ids.v, id)
         IN [state EXCEPT
                !.ids = SelectSeq(state.ids, Kept),
                !.entities = [k \in {j \in DOMAIN state.entities : Kept(j)} |-> state.entities[k]]]

(***************************************************************************)
(* entityStore.ts                                                          *)
(***************************************************************************)
\* entityActions.next / updatedEntityIds.next
emit(w, s, type, ids) ==
    [w EXCEPT !.events = Append(@, [store |-> s, type |-> type, ids |-> ids, all |-> FALSE])]

emitAll(w, s, type) ==
    [w EXCEPT !.events = Append(@, [store |-> s, type |-> type, ids |-> <<>>, all |-> TRUE])]

DefaultAddOptions == [prepend |-> FALSE, loading |-> "false"]

\* !!options.loading
ToBoolean(loading) == IF loading = "true" THEN "true" ELSE "false"

set(w, s, entities) ==
    IF isNil(entities) THEN w
    ELSE LET w1 == _setState(replacedIds(w, s), s, setEntities(w.storeValue[s], coerceArray(entities)))
             w2 == setHasCache(w1, s, TRUE)
         IN emit(w2, s, "Set", w2.storeValue[s].ids)

addReplacing(w, s, entities, options) ==
    LET collection == coerceArray(entities)
        data == addEntities(w.storeValue[s], collection, options)
    IN IF isEmpty(Arr(collection)) THEN w
       ELSE IF data.isNull THEN w
       ELSE emit(_setState(replacedIds(w, s), s,
                           [setEntities(w.storeValue[s], collection) EXCEPT !.loading = options.loading]),
                 s, "Add", data.newIds)

add(w, s, entities, options) ==
    LET collection == coerceArray(entities)
        data == addEntities(w.storeValue[s], collection, options)
    IN IF isEmpty(Arr(collection)) THEN w
       ELSE IF data.isNull THEN w
       ELSE emit(_setState(replacedIds(w, s), s, [data.newState EXCEPT !.loading = options.loading]),
                 s, "Add", data.newIds)

updateEmittingFirst(w, s, idsOrFn, newState) ==
    LET state == w.storeValue[s]
        Selected(id) == ApplyPredicate(idsOrFn, state.entities[id])
        ids == IF isFunction(idsOrFn) THEN SelectSeq(state.ids, Selected)
               ELSE IF isNil(idsOrFn) THEN state.ids ELSE coerceArray(idsOrFn)
    IN IF isEmpty(Arr(ids)) THEN w
       ELSE _setState(emit(emit(w, s, "updatedEntityIds", ids), s, "Update", ids),
                      s, updateEntities(state, ids, newState))

updateUnguarded(w, s, idsOrFn, newState) ==
    LET state == w.storeValue[s]
        Selected(id) == ApplyPredicate(idsOrFn, state.entities[id])
        ids == IF isFunction(idsOrFn) THEN SelectSeq(state.ids, Selected)
               ELSE IF isNil(idsOrFn) THEN state.ids ELSE coerceArray(idsOrFn)
    IN emit(emit(_setState(w, s, updateEntities(state, ids, newState)),
                 s, "updatedEntityIds", ids),
            s, "Update", ids)

\* update(idsOrFn, newState) with a defined newState: the entity path.
update(w, s, idsOrFn, newState) ==
    LET state == w.storeValue[s]
        Selected(id) == ApplyPredicate(idsOrFn, state.entities[id])
        ids == IF isFunction(idsOrFn) THEN SelectSeq(state.ids, Selected)
               ELSE IF isNil(idsOrFn) THEN state.ids ELSE coerceArray(idsOrFn)
    IN IF isEmpty(Arr(ids)) THEN w
       ELSE emit(emit(_setState(w, s, updateEntities(state, ids, newState)),
                      s, "updatedEntityIds", ids),
                 s, "Update", ids)

upsertSwapped(w, s, ids, newState) ==
    LET toArray == coerceArray(ids)
        entities == w.storeValue[s].entities
        IsUpdate(id) == ~hasEntity(entities, id)
        IsNew(id) == hasEntity(entities, id)
        updateIds == SelectSeq(toArray, IsUpdate)
        newIds == SelectSeq(toArray, IsNew)
        newEntities == [i \in 1..Len(newIds) |-> Spread(newState, [id |-> newIds[i]])]
        w1 == update(w, s, Arr(updateIds), newState)
    IN add(w1, s, Arr(newEntities), DefaultAddOptions)

\* The method under the @transaction() decorator.
upsertMethod(w, s, ids, newState) ==
    LET toArray == coerceArray(ids)
        entities == w.storeValue[s].entities
        IsUpdate(id) == hasEntity(entities, id)
        IsNew(id) == ~hasEntity(entities, id)
        updateIds == SelectSeq(toArray, IsUpdate)
        newIds == SelectSeq(toArray, IsNew)
        newEntities == [i \in 1..Len(newIds) |-> Spread(newState, [id |-> newIds[i]])]
        w1 == update(w, s, Arr(updateIds), newState)
    IN add(w1, s, Arr(newEntities), DefaultAddOptions)

upsertUnbatched(w, s, ids, newState) == upsertMethod(w, s, ids, newState)

upsert(w, s, ids, newState) ==
    leaveTransaction(upsertMethod(enterTransaction(w), s, ids, newState), FALSE)

\* The loop of upsertMany: updatedEntities after the first n entities.
RECURSIVE upsertManyEntities(_, _, _)
upsertManyEntities(stateEntities, entities, n) ==
    IF n = 0 THEN NoEntities
    ELSE LET entity == entities[n]
             id == entity.id
             rest == upsertManyEntities(stateEntities, entities, n - 1)
         IN IF hasEntity(stateEntities, id)
            THEN (id :> Spread(stateEntities[id], entity)) @@ rest
            ELSE (id :> entity) @@ rest

upsertManyUnguarded(w, s, entities, options) ==
    LET state == w.storeValue[s]
        IsUpdate(id) == hasEntity(state.entities, id)
        IsNew(id) == ~hasEntity(state.entities, id)
        addedIds == SelectSeq(IdsOf(entities), IsNew)
        updatedIds == SelectSeq(IdsOf(entities), IsUpdate)
        updatedEntities == upsertManyEntities(state.entities, entities, Len(entities))
        w1 == _setState(IF Len(addedIds) > 0 THEN replacedIds(w, s) ELSE w, s, [state EXCEPT
                !.ids = IF Len(addedIds) > 0 THEN state.ids \o addedIds ELSE state.ids,
                !.entities = updatedEntities @@ state.entities,
                !.loading = ToBoolean(options.loading)])
        w2 == emit(emit(w1, s, "updatedEntityIds", updatedIds), s, "Update", updatedIds)
    IN emit(w2, s, "Add", addedIds)

upsertManyAtFront(w, s, entities, options) ==
    LET state == w.storeValue[s]
        IsUpdate(id) == hasEntity(state.entities, id)
        IsNew(id) == ~hasEntity(state.entities, id)
        addedIds == SelectSeq(IdsOf(entities), IsNew)
        updatedIds == SelectSeq(IdsOf(entities), IsUpdate)
        updatedEntities == upsertManyEntities(state.entities, entities, Len(entities))
        w1 == _setState(IF Len(addedIds) > 0 THEN replacedIds(w, s) ELSE w, s, [state EXCEPT
                !.ids = IF Len(addedIds) > 0 THEN addedIds \o state.ids ELSE state.ids,
                !.entities = updatedEntities @@ state.entities,
                !.loading = ToBoolean(options.loading)])
        w2 == IF Len(updatedIds) > 0
              THEN emit(emit(w1, s, "updatedEntityIds", updatedIds), s, "Update", updatedIds)
              ELSE w1
    IN IF Len(addedIds) > 0 THEN emit(w2, s, "Add", addedIds) ELSE w2

upsertMany(w, s, entities, options) ==
    LET state == w.storeValue[s]
        IsUpdate(id) == hasEntity(state.entities, id)
        IsNew(id) == ~hasEntity(state.entities, id)
        addedIds == SelectSeq(IdsOf(entities), IsNew)
        updatedIds == SelectSeq(IdsOf(entities), IsUpdate)
        updatedEntities == upsertManyEntities(state.entities, entities, Len(entities))
        w1 == _setState(IF Len(addedIds) > 0 THEN replacedIds(w, s) ELSE w, s, [state EXCEPT
                !.ids = IF Len(addedIds) > 0 THEN state.ids \o addedIds ELSE state.ids,
                !.entities = updatedEntities @@ state.entities,
                !.loading = ToBoolean(options.loading)])
        w2 == IF Len(updatedIds) > 0
              THEN emit(emit(w1, s, "updatedEntityIds", updatedIds), s, "Update", updatedIds)
              ELSE w1
    IN IF Len(addedIds) > 0 THEN emit(w2, s, "Add", addedIds) ELSE w2

removeIgnoringIds(w, s, idsOrFn) ==
    LET state == w.storeValue[s]
        Selected(id) == ApplyPredicate(idsOrFn, state.entities[id])
        ids == IF isFunction(idsOrFn) THEN Arr(SelectSeq(state.ids, Selected)) ELSE Nil
        w1 == _setState(replacedIds(w, s), s, removeEntities(state, ids))
    IN IF isEmpty(Arr(state.ids)) THEN w
       ELSE IF isEmpty(ids) THEN w
       ELSE IF isNil(ids) THEN emitAll(setHasCache(w1, s, FALSE), s, "Remove")
       ELSE emit(w1, s, "Remove", ids.v)

removeKeepingCache(w, s, idsOrFn) ==
    LET state == w.storeValue[s]
        idPassed == isDefined(idsOrFn)
        Selected(id) == ApplyPredicate(idsOrFn, state.entities[id])
        ids == IF isFunction(idsOrFn) THEN Arr(SelectSeq(state.ids, Selected))
               ELSE IF idPassed THEN Arr(coerceArray(idsOrFn)) ELSE Nil
        w1 == _setState(replacedIds(w, s), s, removeEntities(state, ids))
    IN IF isEmpty(Arr(state.ids)) THEN w
       ELSE IF isEmpty(ids) THEN w
       ELSE IF isNil(ids) THEN emitAll(w1, s, "Remove")
       ELSE emit(w1, s, "Remove", ids.v)

removeUnguarded(w, s, idsOrFn) ==
    LET state == w.storeValue[s]
        idPassed == isDefined(idsOrFn)
        Selected(id) == ApplyPredicate(idsOrFn, state.entities[id])
        ids == IF isFunction(idsOrFn) THEN Arr(SelectSeq(state.ids, Selected))
               ELSE IF idPassed THEN Arr(coerceArray(idsOrFn)) ELSE Nil
        w1 == _setState(replacedIds(w, s), s, removeEntities(state, ids))
    IN IF isEmpty(Arr(state.ids)) THEN w
       ELSE IF isNil(ids) THEN emitAll(setHasCache(w1, s, FALSE), s, "Remove")
       ELSE emit(w1, s, "Remove", ids.v)

remove(w, s, idsOrFn) ==
    LET state == w.storeValue[s]
        idPassed == isDefined(idsOrFn)
        Selected(id) == ApplyPredicate(idsOrFn, state.entities[id])
        ids == IF isFunction(idsOrFn) THEN Arr(SelectSeq(state.ids, Selected))
               ELSE IF idPassed THEN Arr(coerceArray(idsOrFn)) ELSE Nil
        w1 == _setState(replacedIds(w, s), s, removeEntities(state, ids))
    IN IF isEmpty(Arr(state.ids)) THEN w
       ELSE IF isEmpty(ids) THEN w
       ELSE IF isNil(ids) THEN emitAll(setHasCache(w1, s, FALSE), s, "Remove")
       ELSE emit(w1, s, "Remove", ids.v)

addActiveAppending(w, s, ids) ==
    LET toArray == coerceArray(ids)
        state == w.storeValue[s]
        everyExist == \A i \in DOMAIN toArray : Includes(state.active, toArray[i])
    IN IF isEmpty(Arr(toArray)) THEN w
       ELSE IF everyExist THEN w
       ELSE _setState(w, s, [state EXCEPT !.active = state.active \o toArray])

addActive(w, s, ids) ==
    LET toArray == coerceArray(ids)
        state == w.storeValue[s]
        everyExist == \A i \in DOMAIN toArray : Includes(state.active, toArray[i])
    IN IF isEmpty(Arr(toArray)) THEN w
       ELSE IF everyExist THEN w
       ELSE _setState(w, s, [state EXCEPT !.active = Uniques(state.active \o toArray)])

removeActive(w, s, ids) ==
    LET toArray == coerceArray(ids)
        state == w.storeValue[s]
        someExist == \E i \in DOMAIN toArray : Includes(state.active, toArray[i])
        Kept(currentId) == ~Includes(toArray, currentId)
    IN IF isEmpty(Arr(toArray)) THEN w
       ELSE IF ~someExist THEN w
       ELSE _setState(w, s, [state EXCEPT !.active = SelectSeq(state.active, Kept)])

\* The method under the @transaction() decorator.
toggleActiveMethod(w, s, ids) ==
    LET toArray == coerceArray(ids)
        active == w.storeValue[s].active
        IsActive(id) == Includes(active, id)
        IsNotActive(id) == ~Includes(active, id)
        remove_ == SelectSeq(toArray, IsActive)
        add_ == SelectSeq(toArray, IsNotActive)
    IN addActive(removeActive(w, s, Arr(remove_)), s, Arr(add_))

toggleActiveUnbatched(w, s, ids) == toggleActiveMethod(w, s, ids)

toggleActive(w, s, ids) ==
    leaveTransaction(toggleActiveMethod(enterTransaction(w), s, ids), FALSE)

(***************************************************************************)
(* StateHistoryPlugin (the satellite: push, undo, redo over past, present  *)
(* and future) and the undo / redo of entityStateHistoryPlugin.ts.         *)
(***************************************************************************)
DefaultMaxAge == 10

push(h, snapshot) ==
    LET past == Append(h.past, h.present)
    IN [past |-> IF Len(past) > DefaultMaxAge THEN Tail(past) ELSE past,
        present |-> snapshot,
        future |-> <<>>]

undoHistory(h) ==
    IF h.past = <<>> THEN h
    ELSE [past |-> SubSeq(h.past, 1, Len(h.past) - 1),
          present |-> h.past[Len(h.past)],
          future |-> <<h.present>> \o h.future]

redoHistory(h) ==
    IF h.future = <<>> THEN h
    ELSE [past |-> Append(h.past, h.present),
          present |-> Head(h.future),
          future |-> Tail(h.future)]

hasPast(h) == h.past # <<>>

hasFuture(h) == h.future # <<>>

\* this.getEntity(id)
getEntity(w, id) ==
    LET i == CHOOSE j \in DOMAIN w.plugin.entities : w.plugin.entities[j].id = id
    IN w.plugin.entities[i]

setHistory(w, id, h) ==
    [w EXCEPT !.plugin.entities =
        [i \in DOMAIN @ |-> IF @[i].id = id THEN [@[i] EXCEPT !.history = h] ELSE @[i]]]

\* The satellite writes its present back into the entity.
writeBack(w, id) ==
    LET present == getEntity(w, id).history.present
    IN IF isNil(present) THEN w ELSE update(w, w.plugin.store, One(id), present.v)

\* e.undo() and e.redo() of the satellite of id.
satelliteUndo(w, id) ==
    LET h == getEntity(w, id).history
    IN IF hasPast(h) THEN writeBack(setHistory(w, id, undoHistory(h)), id) ELSE w

satelliteRedo(w, id) ==
    LET h == getEntity(w, id).history
    IN IF hasFuture(h) THEN writeBack(setHistory(w, id, redoHistory(h)), id) ELSE w

\* forEachId(ids, e => e.undo()) and forEachId(ids, e => e.redo()), over the
\* ids already resolved.
RECURSIVE forEachIdUndo(_, _)
forEachIdUndo(w, _ids) ==
    IF _ids = <<>> THEN w
    ELSE forEachIdUndo(IF pluginHasEntity(w, Head(_ids)) THEN satelliteUndo(w, Head(_ids)) ELSE w,
                       Tail(_ids))

RECURSIVE forEachIdRedo(_, _)
forEachIdRedo(w, _ids) ==
    IF _ids = <<>> THEN w
    ELSE forEachIdRedo(IF pluginHasEntity(w, Head(_ids)) THEN satelliteRedo(w, Head(_ids)) ELSE w,
                       Tail(_ids))

undoAsRedo(w, ids) == forEachIdRedo(w, resolvedIds(w, ids))

undo(w, ids) == forEachIdUndo(w, resolvedIds(w, ids))

redo(w, ids) == forEachIdRedo(w, resolvedIds(w, ids))

(***************************************************************************)
(* The state machine.                                                      *)
(***************************************************************************)
World ==
    [storeValue |-> storeValue, store |-> store, inTransaction |-> inTransaction,
     cacheActive |-> cacheActive, activeTransactions |-> activeTransactions,
     batchTransaction |-> batchTransaction, notified |-> notified,
     writeLog |-> writeLog, events |-> events, plugin |-> plugin,
     idsDirty |-> idsDirty, hooks |-> hooks]

\* The world a call starts in: a call made outside every transaction starts
\* the logs afresh.
Fresh ==
    IF activeTransactions = 0
    THEN [World EXCEPT !.notified = <<>>, !.writeLog = <<>>, !.events = <<>>, !.hooks = <<>>]
    ELSE World

Becomes(w) ==
    /\ storeValue' = w.storeValue
    /\ store' = w.store
    /\ inTransaction' = w.inTransaction
    /\ cacheActive' = w.cacheActive
    /\ activeTransactions' = w.activeTransactions
    /\ batchTransaction' = w.batchTransaction
    /\ notified' = w.notified
    /\ writeLog' = w.writeLog
    /\ events' = w.events
    /\ plugin' = w.plugin
    /\ idsDirty' = w.idsDirty
    /\ hooks' = w.hooks

\* A call of a store method, made at the top level or by the action of the
\* innermost running applyTransaction.
Call(w, op, s, a, b) ==
    /\ activeTransactions > 0 => Len(writeLog) < MaxWrites
    /\ Becomes(w)
    /\ last' = [op |-> op, store |-> s, a |-> a, b |-> b, depthBefore |-> activeTransactions]
    /\ UNCHANGED txStack

Room(s, n) == Len(storeValue[s].ids) + n <= MaxIdsLen

Init ==
    /\ storeValue = [s \in Stores |-> InitialState]
    /\ store = [s \in Stores |-> InitialState]
    /\ inTransaction = [s \in Stores |-> FALSE]
    /\ cacheActive = [s \in Stores |-> FALSE]
    /\ activeTransactions = 0
    /\ batchTransaction = NullSubject
    /\ txStack = <<>>
    /\ notified = <<>>
    /\ writeLog = <<>>
    /\ events = <<>>
    /\ plugin = NoPlugin
    /\ idsDirty = [s \in Stores |-> FALSE]
    /\ hooks = <<>>
    /\ last = [op |-> "new"]

Set(s, entities) ==
    /\ Len(coerceArray(entities)) <= MaxIdsLen
    /\ Call(set(Fresh, s, entities), "set", s, entities, Nil)

Add(s, entities, options) ==
    /\ Room(s, Len(coerceArray(entities)))
    /\ Call(add(Fresh, s, entities, options), "add", s, entities, options)

Update(s, idsOrFn, newState) ==
    Call(update(Fresh, s, idsOrFn, newState), "update", s, idsOrFn, newState)

Upsert(s, ids, newState) ==
    /\ Room(s, Len(coerceArray(ids)))
    /\ Call(upsert(Fresh, s, ids, newState), "upsert", s, ids, newState)

UpsertMany(s, entities, options) ==
    /\ Room(s, Len(entities))
    /\ Call(upsertMany(Fresh, s, entities, options), "upsertMany", s, entities, options)

Remove(s, idsOrFn) ==
    Call(remove(Fresh, s, idsOrFn), "remove", s, idsOrFn, Nil)

AddActive(s, ids) ==
    Call(addActive(Fresh, s, ids), "addActive", s, ids, Nil)

RemoveActive(s, ids) ==
    Call(removeActive(Fresh, s, ids), "removeActive", s, ids, Nil)

ToggleActive(s, ids) ==
    Call(toggleActive(Fresh, s, ids), "toggleActive", s, ids, Nil)

\* applyTransaction(action): startBatch() and the start of the action.
StartTransaction ==
    /\ Len(txStack) < MaxDepth
    /\ Becomes(enterTransaction(Fresh))
    /\ txStack' = Append(txStack, [depthBefore |-> activeTransactions])
    /\ last' = [op |-> "startBatch", depthBefore |-> activeTransactions]

\* The action of the innermost applyTransaction returns.
ReturnTransaction ==
    /\ txStack # <<>>
    /\ Becomes(leaveTransaction(World, FALSE))
    /\ txStack' = SubSeq(txStack, 1, Len(txStack) - 1)
    /\ last' = [op |-> "applyTransaction", outcome |-> "returned", error |-> "none",
                depthBefore |-> txStack[Len(txStack)].depthBefore]

\* The action of the innermost applyTransaction throws error.
ThrowTransaction(error) ==
    /\ txStack # <<>>
    /\ Becomes(leaveTransaction(World, TRUE))
    /\ txStack' = SubSeq(txStack, 1, Len(txStack) - 1)
    /\ last' = [op |-> "applyTransaction", outcome |-> "threw", error |-> error,
                depthBefore |-> txStack[Len(txStack)].depthBefore]

\* The plugin of store "s1" is constructed (once).
NewPlugin(entityIds) ==
    /\ ~plugin.constructed
    /\ Call(newPlugin(Fresh, entityIds), "newPlugin", "s1", entityIds, Nil)

\* A subclass calls the protected activate(ids) or rebase(ids, actions).
Activate(ids) ==
    /\ plugin.constructed
    /\ Call(activate(Fresh, ids), "activate", "s1", ids, Nil)

Rebase(ids, actions) ==
    /\ plugin.constructed
    /\ Call(rebase(Fresh, ids, actions), "rebase", "s1", ids, One(actions))

\* plugin.destroy(): every satellite.
Destroy ==
    /\ plugin.constructed
    /\ activeTransactions > 0 => Len(hooks) < MaxWrites
    /\ Call([destroy(Fresh, Nil) EXCEPT !.plugin.destroyedAll = TRUE], "destroy", "s1", Nil, Nil)

\* plugin.undo(ids) and plugin.redo(ids).
Undo(ids) ==
    /\ plugin.constructed
    /\ Call(undo(Fresh, ids), "undo", "s1", ids, Nil)

Redo(ids) ==
    /\ plugin.constructed
    /\ Call(redo(Fresh, ids), "redo", "s1", ids, Nil)

\* The satellite of id records a snapshot of its entity.
Push(id, snapshot) ==
    /\ pluginHasEntity(World, id)
    /\ ~getEntity(World, id).destroyed
    /\ LET h == getEntity(World, id).history
       IN /\ Len(h.past) + Len(h.future) < MaxHistory
          /\ Call(setHistory(Fresh, id, push(h, One(snapshot))), "push", "s1", One(id), One(snapshot))

(***************************************************************************)
(* The inputs.                                                             *)
(***************************************************************************)
Patches == {[title |-> "b"], [info |-> "x"]}

EntitiesOf(i) == {[id |-> i, title |-> "a"], [id |-> i, title |-> "b", info |-> "x"]}

Entities == UNION {EntitiesOf(i) : i \in ID}

EntityLists == SeqUpTo(Entities, MaxInput)

IdLists == SeqUpTo(ID, MaxInput)

AddOptions ==
    {DefaultAddOptions, [prepend |-> TRUE, loading |-> "undefined"],
     [prepend |-> FALSE, loading |-> "true"]}

UpsertManyOptions == {[loading |-> "undefined"], [loading |-> "true"]}

\* One entity store, every call made outside transactions.
Next ==
    \/ \E q \in EntityLists, o \in UpsertManyOptions : UpsertMany("s1", q, o)
    \/ \E q \in EntityLists : Set("s1", Arr(q))
    \/ Set("s1", Nil)
    \/ \E q \in EntityLists, o \in AddOptions : Add("s1", Arr(q), o)
    \/ \E e \in Entities : Add("s1", One(e), DefaultAddOptions)
    \/ \E q \in IdLists, p \in Patches : Update("s1", Arr(q), p)
    \/ \E i \in ID, p \in Patches : Update("s1", One(i), p)
    \/ \E t \in Titles, p \in Patches : Update("s1", TitleIs(t), p)
    \/ \E p \in Patches : Update("s1", Nil, p)
    \/ \E q \in IdLists, p \in Patches : Upsert("s1", Arr(q), p)
    \/ \E i \in ID, p \in Patches : Upsert("s1", One(i), p)
    \/ \E q \in IdLists : Remove("s1", Arr(q))
    \/ \E i \in ID : Remove("s1", One(i))
    \/ \E t \in Titles : Remove("s1", TitleIs(t))
    \/ Remove("s1", Nil)

Spec == Init /\ [][Next]_vars

\* One entity store under upsert, upsertMany, entity updates and removals,
\* every call made outside transactions.
NextUpsert ==
    \/ \E q \in EntityLists, o \in UpsertManyOptions : UpsertMany("s1", q, o)
    \/ \E q \in IdLists, p \in Patches : Upsert("s1", Arr(q), p)
    \/ \E i \in ID, p \in Patches : Upsert("s1", One(i), p)
    \/ \E p \in Patches : Update("s1", Nil, p)
    \/ \E i \in ID : Remove("s1", One(i))
    \/ Remove("s1", Nil)

SpecUpsert == Init /\ [][NextUpsert]_vars

\* One entity store and its active list, every call made outside transactions.
NextActive ==
    \/ \E i \in ID : Add("s1", One([id |-> i, title |-> "a"]), DefaultAddOptions)
    \/ \E i \in ID : Remove("s1", One(i))
    \/ \E q \in IdLists : AddActive("s1", Arr(q))
    \/ \E i \in ID : AddActive("s1", One(i))
    \/ \E q \in IdLists : RemoveActive("s1", Arr(q))
    \/ \E i \in ID : RemoveActive("s1", One(i))
    \/ \E q \in IdLists : ToggleActive("s1", Arr(q))
    \/ \E i \in ID : ToggleActive("s1", One(i))

SpecActive == Init /\ [][NextActive]_vars

\* Two entity stores and nested applyTransaction calls whose actions call the
\* stores, return or throw.
NextTx ==
    \/ StartTransaction
    \/ ReturnTransaction
    \/ \E error \in Errors : ThrowTransaction(error)
    \/ \E s \in Stores : Update(s, Nil, [title |-> "b"])
    \/ \E s \in Stores : Upsert(s, Arr(<<1, 2>>), [info |-> "x"])
    \/ \E s \in Stores : Remove(s, Nil)
    \/ \E s \in Stores : ToggleActive(s, One(1))

SpecTx == Init /\ [][NextTx]_vars

\* The plugin over an entity store: all ids or a fixed subset.
PluginParams == {Nil, Arr(<<1>>), Arr(<<1, 2>>), Arr(<<2, 1>>)}

PlainEntity(i) == [id |-> i, title |-> "a"]

PlainLists == SeqUpTo({PlainEntity(i) : i \in ID}, MaxInput)

\* The store is set, added to and removed from, inside transactions or
\* outside, and the plugin is constructed and destroyed along the way.
NextPlugin ==
    \/ \E entityIds \in {Nil, Arr(<<1, 2>>)} : NewPlugin(entityIds)
    \/ \E q \in {<<>>, <<1>>, <<2, 1>>} : Set("s1", Arr([i \in DOMAIN q |-> PlainEntity(q[i])]))
    \/ \E i \in ID : Remove("s1", One(i))
    \/ Remove("s1", Nil)
    \/ StartTransaction
    \/ ReturnTransaction
    \/ Destroy

SpecPlugin == Init /\ [][NextPlugin]_vars

\* The same store and plugin, reconciled by direct calls as well.
NextRebase ==
    \/ \E entityIds \in PluginParams : NewPlugin(entityIds)
    \/ \E q \in PlainLists : Set("s1", Arr(q))
    \/ \E i \in ID : Remove("s1", One(i))
    \/ Activate(Nil)
    \/ \E q \in IdLists : Activate(Arr(q))
    \/ \E q \in IdLists, actions \in BOOLEAN : Rebase(Arr(q), actions)

SpecRebase == Init /\ [][NextRebase]_vars

\* One entity store that is set, added to (at either end) and removed from,
\* by id, by id list, by predicate and as a whole.
NextRemove ==
    \/ \E q \in EntityLists : Set("s1", Arr(q))
    \/ \E e \in Entities, prepend \in BOOLEAN :
            Add("s1", One(e), [prepend |-> prepend, loading |-> "false"])
    \/ \E i \in ID : Remove("s1", One(i))
    \/ \E q \in IdLists : Remove("s1", Arr(q))
    \/ \E t \in Titles : Remove("s1", TitleIs(t))
    \/ Remove("s1", Nil)

SpecRemove == Init /\ [][NextRemove]_vars

\* One entity store that is set and removed from, and whose entities are
\* updated by id, by id list, by predicate and all at once.
NextUpdate ==
    \/ \E q \in EntityLists : Set("s1", Arr(q))
    \/ \E i \in ID : Remove("s1", One(i))
    \/ \E q \in IdLists, p \in Patches : Update("s1", Arr(q), p)
    \/ \E i \in ID, p \in Patches : Update("s1", One(i), p)
    \/ \E t \in Titles, p \in Patches : Update("s1", TitleIs(t), p)
    \/ \E p \in Patches : Update("s1", Nil, p)

SpecUpdate == Init /\ [][NextUpdate]_vars

\* One entity store under every core mutation, add and upsertMany being given
\* each kind of options object.
NextLoading ==
    \/ \E q \in PlainLists : Set("s1", Arr(q))
    \/ \E i \in ID, o \in AddOptions : Add("s1", One(PlainEntity(i)), o)
    \/ \E p \in Patches : Update("s1", Nil, p)
    \/ \E i \in ID, p \in Patches : Upsert("s1", One(i), p)
    \/ \E q \in PlainLists, o \in UpsertManyOptions : UpsertMany("s1", q, o)
    \/ \E i \in ID : Remove("s1", One(i))
    \/ Remove("s1", Nil)

SpecLoading == Init /\ [][NextLoading]_vars

\* The plugin and the histories of its satellites.
Snapshots == {[title |-> t] : t \in Titles}

NextHistory ==
    \/ \E entityIds \in {Nil, Arr(<<1>>)} : NewPlugin(entityIds)
    \/ \E q \in {<<>>, <<1>>, <<2, 1>>} : Set("s1", Arr([i \in DOMAIN q |-> PlainEntity(q[i])]))
    \/ \E i \in ID, snapshot \in Snapshots : Push(i, snapshot)
    \/ \E ids \in {Nil, One(1), One(2), Arr(<<1, 2>>)} : Undo(ids)
    \/ \E ids \in {Nil, One(1), One(2), Arr(<<1, 2>>)} : Redo(ids)

SpecHistory == Init /\ [][NextHistory]_vars

\* One entity store under every operation that touches ids but set.
NextOrder ==
    \/ \E q \in PlainLists, prepend \in BOOLEAN :
            Add("s1", Arr(q), [prepend |-> prepend, loading |-> "false"])
    \/ \E q \in IdLists : Upsert("s1", Arr(q), [title |-> "b"])
    \/ \E q \in PlainLists : UpsertMany("s1", q, [loading |-> "undefined"])
    \/ Update("s1", Nil, [info |-> "x"])
    \/ \E i \in ID : Remove("s1", One(i))
    \/ Remove("s1", TitleIs("b"))

SpecOrder == Init /\ [][NextOrder]_vars

(***************************************************************************)
(* What the logs say.                                                      *)
(***************************************************************************)
\* The notifications store s has made since the current outermost call began.
NotifiedOf(s) ==
    LET OfStore(n) == n.store = s IN SelectSeq(notified, OfStore)

\* The stores that notified, in the order of their notifications.
NotifiedStores == [i \in 1..Len(notified) |-> notified[i].store]

\* The number of writes (_setState calls) to store s since then.
WritesOf(s) == Cardinality({i \in 1..Len(writeLog) : writeLog[i] = s})

\* The notification that carries the current state of store s.
Latest(s) == [store |-> s, state |-> storeValue[s]]

\* The stores of a log in the order of their first, and of their last, entry.
FirstOrder(q) == Uniques(q)
LastOrder(q) == Reverse(Uniques(Reverse(q)))

\* An outermost applyTransaction call has just ended (its action returned or threw).
OutermostEnded == last.op = "applyTransaction" /\ last.depthBefore = 0

(***************************************************************************)
(* C1. Transaction atomicity: when an applyTransaction call that was       *)
(* started outside every transaction has ended, each store its action      *)
(* wrote two or more times has notified exactly once since the call        *)
(* began, and the notified value is the store's state after all writes.    *)
(***************************************************************************)
C1_TransactionAtomicity ==
    OutermostEnded =>
        \A s \in Stores : WritesOf(s) >= 2 => NotifiedOf(s) = <<Latest(s)>>

C1_Witness ==
    /\ OutermostEnded
    /\ \E s \in Stores : WritesOf(s) >= 2 /\ Len(NotifiedOf(s)) = 1

(***************************************************************************)
(* C2. Nested transactions: while the transaction depth is greater than 0  *)
(* (also after an inner applyTransaction has returned and the outer one    *)
(* has not) no store has notified since the outermost transaction began,   *)
(* whatever was written; every written store is waiting for the batch      *)
(* signal and its subject still holds the value it held before.            *)
(***************************************************************************)
C2_NoNotificationInsideTransaction ==
    activeTransactions > 0 =>
        /\ notified = <<>>
        /\ \A s \in Stores : WritesOf(s) > 0 => inTransaction[s]

C2_Witness ==
    /\ activeTransactions = 1
    /\ last.op = "applyTransaction"
    /\ last.depthBefore = 1
    /\ \E s \in Stores : WritesOf(s) >= 2

(***************************************************************************)
(* C3. When the action of an applyTransaction call has thrown, the depth   *)
(* counter is back at the value it had before the call, the error is the   *)
(* call's outcome, and once the depth is 0 no store is left deferred:      *)
(* every store written during the transaction has notified its latest      *)
(* state exactly once.                                                     *)
(***************************************************************************)
C3_ThrowStillEndsBatch ==
    /\ (last.op = "applyTransaction" /\ last.outcome = "threw") =>
            /\ activeTransactions = last.depthBefore
            /\ last.error \in Errors
    /\ (last.op = "applyTransaction" /\ activeTransactions = 0) =>
            \A s \in Stores :
                /\ ~inTransaction[s]
                /\ WritesOf(s) > 0 => NotifiedOf(s) = <<Latest(s)>>

C3_Witness ==
    /\ last.op = "applyTransaction"
    /\ last.outcome = "threw"
    /\ last.depthBefore = 0
    /\ \E s \in Stores : WritesOf(s) > 0 /\ NotifiedOf(s) = <<Latest(s)>>

(***************************************************************************)
(* C4. When an outermost transaction has closed, each store written        *)
(* during it has notified exactly once, and the stores notified in the     *)
(* order of their FIRST write inside the transaction (the order in which   *)
(* they subscribed to the batch signal).                                   *)
(***************************************************************************)
C4_EmitInFirstMutationOrder ==
    OutermostEnded => NotifiedStores = FirstOrder(writeLog)

\* C4 as the specification states it: in the order of their last write.
C4_EmitInLastMutationOrder ==
    OutermostEnded => NotifiedStores = LastOrder(writeLog)

C4_Witness ==
    /\ OutermostEnded
    /\ writeLog = <<"s1", "s2", "s1">>
    /\ NotifiedStores = <<"s1", "s2">>

(***************************************************************************)
(* The steps of the entity store: last' names the call a step made, the    *)
(* unprimed variables are the state it was made in.                        *)
(***************************************************************************)
Before(s) == storeValue[s]
After(s) == storeValue'[s]

\* updatedEntityIds and entityActions emissions, without the state notifications.
EntityEvents(log) ==
    LET NotState(e) == e.type # "State" IN SelectSeq(log, NotState)

EventTypes(log) == {log[i].type : i \in 1..Len(log)}

(***************************************************************************)
(* C5. An upsert made outside every transaction whose ids name both an     *)
(* entity that exists and one that does not makes two writes (the update   *)
(* and the add) and exactly one state notification, which carries the      *)
(* state after both writes.                                                *)
(***************************************************************************)
C5_UpsertNotifiesOnce ==
    [][(/\ last'.op = "upsert"
        /\ last'.depthBefore = 0
        /\ \E i \in Range(coerceArray(last'.a)) : hasEntity(Before(last'.store).entities, i)
        /\ \E i \in Range(coerceArray(last'.a)) : ~hasEntity(Before(last'.store).entities, i))
       => (/\ writeLog' = <<last'.store, last'.store>>
           /\ notified' = <<[store |-> last'.store, state |-> After(last'.store)]>>
           /\ \A i \in Range(coerceArray(last'.a)) : hasEntity(After(last'.store).entities, i))]_vars

C5_Witness ==
    /\ last.op = "upsert"
    /\ last.depthBefore = 0
    /\ writeLog = <<"s1", "s1">>
    /\ notified = <<Latest("s1")>>
    /\ EventTypes(events) = {"State", "updatedEntityIds", "Update", "Add"}

(***************************************************************************)
(* C6. Upsert is total.  After upsert(id, patch), entities[id] exists; if  *)
(* the id was there before, entities[id] is the prior entity merged with   *)
(* the patch and ids is unchanged; if not, entities[id] is the patch       *)
(* merged with {id} and the id is appended to ids.  After upsert of a list *)
(* of absent ids, ids is the prior ids followed by the list.               *)
(***************************************************************************)
C6_UpsertTotal ==
    [][last'.op = "upsert" =>
        LET s == last'.store
            patch == last'.b
            old == Before(s)
            new == After(s)
        IN /\ last'.a.tag = "one" =>
                LET id == last'.a.v
                IN /\ hasEntity(new.entities, id)
                   /\ IF hasEntity(old.entities, id)
                      THEN /\ new.entities[id] = Spread(old.entities[id], patch)
                           /\ new.ids = old.ids
                      ELSE /\ new.entities[id] = Spread(patch, [id |-> id])
                           /\ new.ids = Append(old.ids, id)
           /\ (/\ last'.a.tag = "array"
               /\ \A i \in Range(last'.a.v) : ~hasEntity(old.entities, i))
              => new.ids = old.ids \o last'.a.v]_vars

C6_Witness ==
    /\ last.op = "upsert"
    /\ last.a.tag = "one"
    /\ "Update" \in EventTypes(events)
    /\ storeValue["s1"].entities[last.a.v] = [id |-> last.a.v, title |-> "b", info |-> "x"]

(***************************************************************************)
(* C7. After upsertMany(records): every record whose id existed is stored  *)
(* as the prior entity merged with the record, every record with a new id  *)
(* is stored as given, the new ids follow the prior ids in input order,    *)
(* and the entities the input does not name are unchanged.                 *)
(***************************************************************************)
C7_UpsertManyStoresEveryRecord ==
    [][last'.op = "upsertMany" =>
        LET s == last'.store
            records == last'.a
            old == Before(s)
            new == After(s)
            IsNew(id) == ~hasEntity(old.entities, id)
        IN /\ \A i \in 1..Len(records) :
                /\ hasEntity(new.entities, records[i].id)
                /\ new.entities[records[i].id] =
                        IF hasEntity(old.entities, records[i].id)
                        THEN Spread(old.entities[records[i].id], records[i])
                        ELSE records[i]
           /\ new.ids = old.ids \o SelectSeq(IdsOf(records), IsNew)
           /\ \A k \in DOMAIN old.entities \ Range(IdsOf(records)) :
                hasEntity(new.entities, k) /\ new.entities[k] = old.entities[k]]_vars

(***************************************************************************)
(* C8. upsertMany emits what upsert over the same ids emits from the same  *)
(* state: updatedEntityIds and an Update action with the ids that existed, *)
(* if any did, then an Add action with the ids that were new, if any was.  *)
(***************************************************************************)
C8_UpsertManyEmitsAsUpsert ==
    [][last'.op = "upsertMany" =>
        \A patch \in Patches :
            EntityEvents(events') =
                EntityEvents(upsert(Fresh, last'.store, Arr(IdsOf(last'.a)), patch).events)]_vars

C8_Witness ==
    /\ last.op = "upsertMany"
    /\ Len(last.a) = 2
    /\ EventTypes(events) = {"State", "updatedEntityIds", "Update", "Add"}

(***************************************************************************)
(* C9. A toggleActive call made outside every transaction that is given    *)
(* at least one id makes exactly one state notification; it carries the    *)
(* state after the call, in which each given id has changed sides and      *)
(* every other id is active exactly if it was.                             *)
(***************************************************************************)
ToggledFrom(old, new, given) ==
    \A i \in ID :
        Includes(new.active, i) =
            (IF i \in given THEN ~Includes(old.active, i) ELSE Includes(old.active, i))

C9_ToggleNotifiesOnceGivenIds ==
    [][(/\ last'.op = "toggleActive"
        /\ last'.depthBefore = 0
        /\ coerceArray(last'.a) # <<>>)
       => (/\ notified' = <<[store |-> last'.store, state |-> After(last'.store)]>>
           /\ ToggledFrom(Before(last'.store), After(last'.store),
                          Range(coerceArray(last'.a))))]_vars

\* C9 as the specification states it: every invocation.
C9_ToggleNotifiesOnce ==
    [][(last'.op = "toggleActive" /\ last'.depthBefore = 0)
       => (/\ Len(notified') = 1
           /\ ToggledFrom(Before(last'.store), After(last'.store),
                          Range(coerceArray(last'.a))))]_vars

C9_Witness ==
    /\ last.op = "toggleActive"
    /\ last.depthBefore = 0
    /\ writeLog = <<"s1", "s1">>
    /\ notified = <<Latest("s1")>>

(***************************************************************************)
(* C10. Invariant I1: the length of ids is the number of keys of           *)
(* entities, after every mutation.                                         *)
(***************************************************************************)
C10_IdsLengthIsEntitiesSize ==
    \A s \in Stores : Len(storeValue[s].ids) = Cardinality(DOMAIN storeValue[s].entities)

(***************************************************************************)
(* C11 (I2).  Whenever setActive, addActive or toggleActive places an id   *)
(* into active, that id is in ids at the moment of the call: no call puts  *)
(* into active an id that is not in the collection.  addActive (and        *)
(* toggleActive through it) never looks at ids, so the statement fails.    *)
(***************************************************************************)
PlacedIntoActive(s) == {id \in Range(After(s).active) : ~Includes(Before(s).active, id)}

C11_ActivatedIdsAreInIds ==
    [][last'.op \in {"addActive", "toggleActive"}
       => \A id \in PlacedIntoActive(last'.store) : Includes(Before(last'.store).ids, id)]_vars

(***************************************************************************)
(* The satellites of the plugin.                                           *)
(***************************************************************************)
Satellites == Range(SatelliteIds(World))

Tracked == Range(getIds(World))

AllIdsMode == plugin.constructed /\ isUndefined(plugin.entityIds)

SubsetMode == plugin.constructed /\ ~isUndefined(plugin.entityIds)

IsTracked(x) == AllIdsMode \/ Includes(coerceArray(plugin.entityIds), x)

Expected == {x \in ID : IsTracked(x) /\ hasEntity(storeValue["s1"].entities, x)}

Constructed == last.op = "newPlugin"

\* The store has just emitted a new ids array to the plugin.
Reconciled ==
    /\ plugin.constructed
    /\ last.op \in {"set", "remove", "applyTransaction"}
    /\ activeTransactions = 0
    /\ NotifiedOf("s1") # <<>>

C13_SatelliteIffTrackedAndPresent == (Constructed \/ Reconciled) => Satellites = Expected

(***************************************************************************)
(* C14.  Within one reconciliation pass (one rebase call with an id list), *)
(* in all-ids mode and in fixed-subset mode, every creation (beforeAdd,    *)
(* instantiatePlugin, afterAdd) happens before any removal (beforeRemove,  *)
(* destroy).  Under SpecRebase every step runs at most one pass and hooks  *)
(* is the log of that pass.  The fixed-subset loop removes while it is     *)
(* still going through the subset, so the statement fails there.           *)
(***************************************************************************)
IsCreation(h) == h.hook \in {"beforeAdd", "instantiatePlugin", "afterAdd"}

IsRemoval(h) == h.hook \in {"beforeRemove", "destroy"}

C14_CreationsBeforeRemovals ==
    \A i, j \in DOMAIN hooks : (IsRemoval(hooks[i]) /\ IsCreation(hooks[j])) => j < i

(***************************************************************************)
(* C15.  As claimed: a call activate(changedIds) whose changedIds is an    *)
(* empty list or null changes nothing (no satellite is created, none is    *)
(* destroyed, no hook runs).                                               *)
(*                                                                         *)
(* What holds: activate([]) creates no satellite and destroys every        *)
(* satellite, in the order of their creation; activate() with no ids,      *)
(* whenever it is called, destroys none and creates one for every id of    *)
(* getIds() that had none.                                                 *)
(***************************************************************************)
HookIds(log) == [i \in DOMAIN log |-> log[i].id]

C16_DestroyReleasesEverything ==
    [][/\ (last'.op = "destroy" /\ last'.depthBefore = 0)
            => \A i \in DOMAIN plugin'.entities : plugin'.entities[i].destroyed
       /\ (plugin.destroyedAll /\ last'.op # "destroy")
            => (plugin'.entities = plugin.entities /\ hooks' \in {hooks, <<>>})]_vars

(***************************************************************************)
(* C17 (P1).  A remove of one id, or of a list of ids, none of which is in *)
(* the collection leaves ids and entities as they were.                    *)
(***************************************************************************)
GivenIds(call) == call.op = "remove" /\ call.a.tag \in {"one", "array"}

NoneInCollection(state, q) ==
    \A i \in DOMAIN q : ~hasEntity(state.entities, q[i]) /\ ~Includes(state.ids, q[i])

C17_RemoveOfAbsentIdsKeepsAll ==
    [][(GivenIds(last') /\ NoneInCollection(Before(last'.store), coerceArray(last'.a)))
       => /\ After(last'.store).ids = Before(last'.store).ids
          /\ After(last'.store).entities = Before(last'.store).entities]_vars

\* remove(2) went through the reducer on a collection that holds only id 1.
C17_Witness ==
    /\ last.op = "remove"
    /\ last.a = One(2)
    /\ storeValue["s1"].ids = <<1>>
    /\ DOMAIN storeValue["s1"].entities = {1}
    /\ writeLog = <<"s1">>

(***************************************************************************)
(* C18 (P2).  For an entity E whose id X is fresh (not in the collection), *)
(* add(E) followed by remove(X) restores the ids, in the same order, and   *)
(* the entities, whether E was appended or prepended.  The two calls are   *)
(* applied to every reachable state.                                       *)
(***************************************************************************)
IsFreshId(state, x) == ~hasEntity(state.entities, x) /\ ~Includes(state.ids, x)

AddOf(e, prepend) == add(Fresh, "s1", One(e), [prepend |-> prepend, loading |-> "false"])

AddThenRemove(e, prepend) == remove(AddOf(e, prepend), "s1", One(e.id))

C18_AddThenRemoveRestores ==
    \A e \in Entities, prepend \in BOOLEAN :
        IsFreshId(storeValue["s1"], e.id)
            => /\ AddThenRemove(e, prepend).storeValue["s1"].ids = storeValue["s1"].ids
               /\ AddThenRemove(e, prepend).storeValue["s1"].entities = storeValue["s1"].entities

\* Entity 2 is prepended to a collection that holds entity 1, then removed.
C18_Witness ==
    LET e == [id |-> 2, title |-> "a"]
    IN /\ storeValue["s1"].ids = <<1>>
       /\ AddOf(e, TRUE).storeValue["s1"].ids = <<2, 1>>
       /\ AddOf(e, TRUE).storeValue["s1"].entities[2] = e
       /\ AddThenRemove(e, TRUE).storeValue["s1"].ids = <<1>>
       /\ AddThenRemove(e, TRUE).writeLog = <<"s1", "s1">>

(***************************************************************************)
(* C19.  As claimed: after remove() with no target, called in any          *)
(* reachable state, ids is empty, entities is empty and the cache-active   *)
(* flag is false.                                                          *)
(*                                                                         *)
(* What holds: that is so when ids was not empty at the call; when ids was *)
(* empty, remove() returns at once and the cache-active flag keeps its     *)
(* value (true after set([])).                                             *)
(***************************************************************************)
RemoveAll(call) == call.op = "remove" /\ isNil(call.a)

C19_RemoveAllClearsCache ==
    [][RemoveAll(last')
       => /\ After(last'.store).ids = <<>>
          /\ After(last'.store).entities = NoEntities
          /\ cacheActive'[last'.store] = FALSE]_vars

C19_RemoveAllOfNonEmptyClearsCache ==
    [][RemoveAll(last')
       => IF Before(last'.store).ids # <<>>
          THEN /\ After(last'.store).ids = <<>>
               /\ After(last'.store).entities = NoEntities
               /\ cacheActive'[last'.store] = FALSE
          ELSE /\ After(last'.store) = Before(last'.store)
               /\ cacheActive'[last'.store] = cacheActive[last'.store]]_vars

\* remove() has just emptied a collection.
C19_Witness ==
    /\ RemoveAll(last)
    /\ writeLog = <<"s1">>
    /\ \E i \in DOMAIN events : events[i].type = "Remove" /\ events[i].all
    /\ storeValue["s1"].ids = <<>>
    /\ ~cacheActive["s1"]

(***************************************************************************)
(* C20.  remove does nothing when the resolved removal set is empty: when  *)
(* the collection is already empty (whatever the target), when an empty id *)
(* list is given, or when a predicate matches no entity.  There is no      *)
(* state write, no notification and no Remove entity-action.               *)
(***************************************************************************)
MatchesNone(state, fn) ==
    \A i \in DOMAIN state.ids : ~ApplyPredicate(fn, state.entities[state.ids[i]])

NothingToRemove(call, state) ==
    /\ call.op = "remove"
    /\ \/ state.ids = <<>>
       \/ call.a = Arr(<<>>)
       \/ isFunction(call.a) /\ MatchesNone(state, call.a)

C20_EmptyRemovalIsNoOp ==
    [][NothingToRemove(last', Before(last'.store))
       => /\ writeLog' = <<>>
          /\ notified' = <<>>
          /\ events' = <<>>
          /\ storeValue' = storeValue
          /\ store' = store
          /\ cacheActive' = cacheActive]_vars

\* A predicate that matched none of the entities of a collection that has some.
C20_Witness ==
    /\ last.op = "remove"
    /\ isFunction(last.a)
    /\ storeValue["s1"].ids # <<>>
    /\ MatchesNone(storeValue["s1"], last.a)
    /\ writeLog = <<>>
    /\ events = <<>>

(***************************************************************************)
(* C21.  update(target, patch) whose target resolves to no id (an empty id *)
(* list, a predicate no entity satisfies, a null target on an empty        *)
(* collection) does nothing: no state write, no notification, no           *)
(* updatedEntityIds emission, no Update entity-action.  Otherwise exactly  *)
(* the resolved ids are reported as updated: the given ids, the ids whose  *)
(* entity satisfies the predicate, or all the ids for a null target.       *)
(***************************************************************************)
ResolvedIds(call, state) ==
    LET Satisfies(id) == ApplyPredicate(call.a, state.entities[id])
    IN CASE call.a.tag = "fn" -> SelectSeq(state.ids, Satisfies)
         [] call.a.tag = "nil" -> state.ids
         [] call.a.tag = "one" -> <<call.a.v>>
         [] OTHER -> call.a.v

Reported(s, ids) ==
    <<[store |-> s, type |-> "updatedEntityIds", ids |-> ids, all |-> FALSE],
      [store |-> s, type |-> "Update", ids |-> ids, all |-> FALSE]>>

C21_UpdateReportsResolvedIds ==
    [][last'.op = "update"
       => IF ResolvedIds(last', Before(last'.store)) = <<>>
          THEN /\ writeLog' = <<>>
               /\ notified' = <<>>
               /\ events' = <<>>
               /\ storeValue' = storeValue
          ELSE /\ writeLog' = <<last'.store>>
               /\ Len(notified') = 1
               /\ EntityEvents(events')
                    = Reported(last'.store, ResolvedIds(last', Before(last'.store)))]_vars

\* A predicate selected one entity of two, and that id alone was reported.
C21_Witness ==
    /\ last.op = "update"
    /\ isFunction(last.a)
    /\ Len(storeValue["s1"].ids) = 2
    /\ \E i \in ID : EntityEvents(events) = Reported("s1", <<i>>)

(***************************************************************************)
(* C22.  Starting from an active list without duplicates, the active list  *)
(* has no duplicates after any addActive, removeActive or toggleActive.    *)
(* addActive keeps the active ids in their order and appends the ids that  *)
(* were not active, in the order the input first names them; removeActive  *)
(* removes exactly the given ids and keeps the others in order; addActive  *)
(* of ids that are all active and removeActive of ids none of which is     *)
(* active write no state.                                                  *)
(***************************************************************************)
NoDuplicates(q) == \A i, j \in DOMAIN q : q[i] = q[j] => i = j

NotYetActive(active, given) ==
    LET IsNew(id) == ~Includes(active, id) IN Uniques(SelectSeq(given, IsNew))

StillActive(active, given) ==
    LET IsKept(id) == ~Includes(given, id) IN SelectSeq(active, IsKept)

C22_ActiveHasSetSemantics ==
    [][LET s == last'.store
           given == coerceArray(last'.a)
       IN /\ (last'.op \in {"addActive", "removeActive", "toggleActive"}
                /\ NoDuplicates(Before(s).active))
             => NoDuplicates(After(s).active)
          /\ last'.op = "addActive"
             => /\ After(s).active = Before(s).active \o NotYetActive(Before(s).active, given)
                /\ NotYetActive(Before(s).active, given) = <<>> => writeLog' = <<>>
          /\ last'.op = "removeActive"
             => /\ After(s).active = StillActive(Before(s).active, given)
                /\ StillActive(Before(s).active, given) = Before(s).active => writeLog' = <<>>]_vars

\* addActive([2, 2]) has appended id 2, once, to the active list [1].
C22_Witness ==
    /\ last.op = "addActive"
    /\ last.a = Arr(<<2, 2>>)
    /\ storeValue["s1"].active = <<1, 2>>
    /\ writeLog = <<"s1">>

(***************************************************************************)
(* C23 (I3).  No operation re-sorts ids.  add, upsert and upsertMany put   *)
(* the new ids at the end of ids, in the order of the input (add puts them *)
(* at the front when prepend is asked for, and only then); the ids already *)
(* there keep their order under add, update, upsert and upsertMany; remove *)
(* keeps the order of the ids that survive.                                *)
(***************************************************************************)
NewIdsOf(state, ids) ==
    LET IsNew(id) == ~hasEntity(state.entities, id) IN SelectSeq(ids, IsNew)

Survivors(old, new) ==
    LET Survives(id) == Includes(new, id) IN SelectSeq(old, Survives)

C23_NoResorting ==
    [][LET s == last'.store
           old == Before(s).ids
           new == After(s).ids
       IN /\ last'.op = "add"
             => LET given == IdsOf(coerceArray(last'.a))
                IN IF last'.b.prepend
                   THEN /\ Len(new) = Len(given) + Len(old)
                        /\ SubSeq(new, Len(given) + 1, Len(new)) = old
                        /\ Range(SubSeq(new, 1, Len(given))) = Range(given)
                   ELSE new = old \o given
          /\ last'.op = "upsert" => new = old \o NewIdsOf(Before(s), coerceArray(last'.a))
          /\ last'.op = "upsertMany" => new = old \o NewIdsOf(Before(s), IdsOf(last'.a))
          /\ last'.op = "update" => new = old
          /\ last'.op = "remove" => new = Survivors(old, new)]_vars

\* upsertMany put the new id 1 behind the id 2 that was there.
C23_Witness ==
    /\ last.op = "upsertMany"
    /\ IdsOf(last.a) = <<2, 1>>
    /\ storeValue["s1"].ids = <<2, 1>>
    /\ EventTypes(EntityEvents(events)) = {"updatedEntityIds", "Update", "Add"}

(***************************************************************************)
(* C24.  The history of one entity: after push(A) and push(B), undo()      *)
(* makes present = A with hasFuture true and a following redo() makes      *)
(* present = B with hasFuture false; undo followed by redo, past not       *)
(* empty, restores past, present and future; undo with an empty past and   *)
(* redo with an empty future change nothing.  Through the collection       *)
(* plugin, undo and redo pass over an id that has no satellite: no         *)
(* satellite appears and the other histories are as they were.             *)
(***************************************************************************)
Undone(h, h2) ==
    IF h.past = <<>> THEN h2 = h
    ELSE /\ h2.past \o <<h2.present>> = h.past
         /\ h2.future = <<h.present>> \o h.future

Redone(h, h2) ==
    IF h.future = <<>> THEN h2 = h
    ELSE /\ <<h2.present>> \o h2.future = h.future
         /\ h2.past = h.past \o <<h.present>>

ScenarioD(h, a, b) ==
    LET pushed == push(push(h, a), b)
        undone == undoHistory(pushed)
        redone == redoHistory(undone)
    IN /\ undone.present = a
       /\ hasFuture(undone)
       /\ redone.present = b
       /\ ~hasFuture(redone)
       /\ redone = pushed

C25_CounterIsTheNestingDepth ==
    /\ activeTransactions \in Nat
    /\ activeTransactions = Len(txStack)
    /\ txStack = <<>> => activeTransactions = 0
    /\ isTransactionInProcess(World) <=> activeTransactions > 0

\* An inner applyTransaction has thrown and the outer one is still running.
C25_Witness ==
    /\ last.op = "applyTransaction"
    /\ last.outcome = "threw"
    /\ last.depthBefore = 1
    /\ activeTransactions = 1
    /\ Len(txStack) = 1
    /\ isTransactionInProcess(World)

(***************************************************************************)
(* C26.  In every reachable state of an entity store state.loading is a    *)
(* boolean: set, add with any options object, update, upsert, upsertMany   *)
(* with any options and remove never leave another value there.  add       *)
(* stores options.loading as it is, so an options object without loading   *)
(* leaves undefined and the statement fails.                               *)
(***************************************************************************)
C26_LoadingIsBoolean == \A s \in Stores : storeValue[s].loading \in {"true", "false"}

(***************************************************************************)
(* C27.  Transactions batch notifications and roll nothing back: when the  *)
(* action of applyTransaction throws after store writes, the writes stay   *)
(* in the stores' values (what _value() returns), and each written store   *)
(* publishes its value in one notification when the outermost transaction  *)
(* ends, none before.                                                      *)
(***************************************************************************)
NotifiedAfter(s) ==
    LET OfStore(n) == n.store = s IN SelectSeq(notified', OfStore)

Threw(call) == call.op = "applyTransaction" /\ call.outcome = "threw"

C27_ThrowKeepsTheWrites ==
    [][Threw(last')
       => /\ storeValue' = storeValue
          /\ IF last'.depthBefore = 0
             THEN \A s \in Stores :
                    NotifiedAfter(s) = IF WritesOf(s) > 0
                                       THEN <<[store |-> s, state |-> storeValue[s]]>>
                                       ELSE <<>>
             ELSE notified' = <<>>]_vars

\* The outermost action threw after two stores were written: both values stay
\* and both stores have notified once.
C27_Witness ==
    /\ Threw(last)
    /\ last.depthBefore = 0
    /\ \A s \in Stores :
          /\ WritesOf(s) > 0
          /\ storeValue[s] # InitialState
          /\ NotifiedOf(s) = <<[store |-> s, state |-> storeValue[s]]>>

(***************************************************************************)
(* C28.  Entity-action events (Set, Add, Update, Remove) and               *)
(* updatedEntityIds emissions are not batched by transactions.  Inside a   *)
(* transaction they are emitted at each operation, so before the deferred  *)
(* state notification of that operation, which comes when the outermost    *)
(* transaction ends; outside a transaction the state notification of an    *)
(* operation comes before its entity-action event.                         *)
(***************************************************************************)
IsStateEvent(e) == e.type = "State"

AllStateEvents(log) == \A i \in DOMAIN log : IsStateEvent(log[i])

NoStateEvent(log) == \A i \in DOMAIN log : ~IsStateEvent(log[i])

\* The events a step added to the log.
Emitted == SubSeq(events', Len(events) + 1, Len(events'))

NewHooks == SubSeq(hooks', Len(hooks) + 1, Len(hooks'))

HookedIds(log, name) == {log[i].id : i \in {j \in DOMAIN log : log[j].hook = name}}

InsideTransaction(call) == call.op \in {"set", "remove"} /\ call.depthBefore > 0

OutermostEnds(call) == call.op = "applyTransaction" /\ call.depthBefore = 0

FinalIds == Range(storeValue'["s1"].ids)

====
